---- MODULE Spec2Model ----
(***************************************************************************)
(* Item-issue request forms (theshivammaheshwari/forms).                   *)
(*                                                                         *)
(* Two React single-page forms are modelled as one state machine; the      *)
(* variable "variant" selects which App component is running:              *)
(*   "A"  form-level dates, remote item catalog, validateForm              *)
(*        (src/unnamed/part_000 lines 1-687)                               *)
(*   "B"  per-item dates and remark, no catalog                            *)
(*        (src/unnamed/part_000 lines 688-1175)                            *)
(*                                                                         *)
(* Every useState cell is a variable.  Every event handler is one action,  *)
(* guarded by the JSX condition under which its control is rendered and    *)
(* enabled.  An async handler is split at its await: the part before the   *)
(* await is one action, the continuation (resolve or throw) another; the   *)
(* continuation reads the formData its closure captured, which is kept in  *)
(* the in-flight record.  Handlers are invoked directly: the browser's     *)
(* native constraint validation (required / pattern attributes) is not a   *)
(* guard of handleSubmit.                                                  *)
(***************************************************************************)
EXTENDS Integers, Sequences, FiniteSets, TLC

(***************************************************************************)
(* Bounds of the model.                                                    *)
(***************************************************************************)
MaxEdits == 3
MaxItems == 2
MaxFailures == 2
MaxCatalogRows == 3

(***************************************************************************)
(* Option values: null is <<>>, a present value v is <<v>>.                *)
(***************************************************************************)
None == <<>>
Some(v) == <<v>>

(***************************************************************************)
(* String helpers, computed as the JavaScript built-ins compute them.      *)
(***************************************************************************)
EmailSuffix == "@lnmiit.ac.in"
EmailError == "Email must be a valid LNMIIT email address (@lnmiit.ac.in)"
MobileError == "Please enter a valid 10-digit mobile number"
SubmitError == "Failed to submit form. Please check your internet connection and try again."

Digits == {"0", "1", "2", "3", "4", "5", "6", "7", "8", "9"}

CharAt(s, i) == SubSeq(s, i, i)

\* String.prototype.endsWith: compare the last Len(suffix) characters.
EndsWith(s, suffix) ==
  IF Len(s) < Len(suffix) THEN FALSE
  ELSE SubSeq(s, Len(s) - Len(suffix) + 1, Len(s)) = suffix

\* The matcher of /^\d{10}$/: anchored at position 1, consume n digits one
\* at a time, then require the end of the input.
RECURSIVE MatchDigitsFrom(_, _, _)
MatchDigitsFrom(s, pos, n) ==
  IF n = 0 THEN pos = Len(s) + 1
  ELSE IF pos > Len(s) THEN FALSE
  ELSE IF CharAt(s, pos) \notin Digits THEN FALSE
  ELSE MatchDigitsFrom(s, pos + 1, n - 1)

MobileDigits == 10

\* Mutant: the pattern without its end anchor, /^\d{10}/.
MatchesMobileUnanchored(s) ==
  /\ Len(s) >= MobileDigits
  /\ \A i \in 1 .. MobileDigits : CharAt(s, i) \in Digits

MatchesMobile(s) == MatchDigitsFrom(s, 1, MobileDigits)

WhiteSpace == {" ", "\t", "\n", "\r"}

RECURSIVE TrimStart(_)
TrimStart(s) ==
  IF Len(s) = 0 THEN s
  ELSE IF CharAt(s, 1) \in WhiteSpace THEN TrimStart(SubSeq(s, 2, Len(s)))
  ELSE s

RECURSIVE TrimEnd(_)
TrimEnd(s) ==
  IF Len(s) = 0 THEN s
  ELSE IF CharAt(s, Len(s)) \in WhiteSpace THEN TrimEnd(SubSeq(s, 1, Len(s) - 1))
  ELSE s

\* String.prototype.trim
Trim(s) == TrimEnd(TrimStart(s))

\* String.prototype.split(sep) for a one-character separator: the pieces
\* between separators, in order; a string without separator is one piece.
RECURSIVE SplitFrom(_, _, _, _)
SplitFrom(s, sep, pos, cur) ==
  IF pos > Len(s) THEN <<cur>>
  ELSE IF CharAt(s, pos) = sep THEN <<cur>> \o SplitFrom(s, sep, pos + 1, "")
  ELSE SplitFrom(s, sep, pos + 1, cur \o CharAt(s, pos))

Split(s, sep) == SplitFrom(s, sep, 1, "")

\* Boolean(string): the empty string is falsy.
Truthy(s) == Len(s) > 0

\* Mutant: the parsing without slice(1), the header row kept.
ParseCatalogKeepsHeader(text) ==
  LET rows == [i \in DOMAIN Split(text, "\n") |-> Trim(Split(text, "\n")[i])]
      cols == [i \in DOMAIN rows |-> Trim(Split(rows[i], ",")[1])]
  IN SelectSeq(cols, Truthy)

\* fetchItems, lines 63-66: rows trimmed, header row sliced off, first
\* comma-separated column of each row trimmed, empty values filtered out
\* (Array.prototype.filter is SelectSeq).
ParseCatalog(text) ==
  LET rows == [i \in DOMAIN Split(text, "\n") |-> Trim(Split(text, "\n")[i])]
      body == Tail(rows)
      cols == [i \in DOMAIN body |-> Trim(Split(body[i], ",")[1])]
  IN SelectSeq(cols, Truthy)

(***************************************************************************)
(* The data model.                                                         *)
(***************************************************************************)
Variants == {"A", "B"}

\* const departments, lines 22-31
departments ==
  << "Communication and Computer Engineering",
     "Computer Science and Engineering",
     "Electronics and Communication Engineering",
     "Mechanical-Mechatronics Engineering",
     "Physics",
     "Mathematics",
     "Humanities and Social Sciences",
     "Others" >>

\* The row addItem appends and the forms start with.
EmptyItem(v) ==
  IF v = "A" THEN [name |-> "", quantity |-> ""]
  ELSE [name |-> "", quantity |-> "", issueDate |-> "", returnDate |-> "",
        remark |-> ""]

\* useState<FormData>({...}): the form state at page load.
InitialFormData(v) ==
  IF v = "A"
  THEN [userType |-> "student", name |-> "", id |-> "", department |-> "",
        otherDepartment |-> "", instructorName |-> "", email |-> "",
        mobile |-> "", issueDate |-> "", returnDate |-> "",
        items |-> <<EmptyItem("A")>>]
  ELSE [userType |-> "student", name |-> "", id |-> "", department |-> "",
        email |-> "", mobile |-> "", items |-> <<EmptyItem("B")>>]

\* The object handleClose passes to setFormData (a literal of its own in
\* the source, not a reference to the initial state).
ClosedFormData(v) ==
  IF v = "A"
  THEN [userType |-> "student", name |-> "", id |-> "", department |-> "",
        otherDepartment |-> "", instructorName |-> "", email |-> "",
        mobile |-> "", issueDate |-> "", returnDate |-> "",
        items |-> <<[name |-> "", quantity |-> ""]>>]
  ELSE [userType |-> "student", name |-> "", id |-> "", department |-> "",
        email |-> "", mobile |-> "",
        items |-> <<[name |-> "", quantity |-> "", issueDate |-> "",
                     returnDate |-> "", remark |-> ""]>>]

VARIABLES
  variant,         \* which of the two App components this page runs
  formData,        \* useState<FormData>
  submitted,       \* useState(false)
  error,           \* useState<string | null>(null)
  isSubmitting,    \* useState(false)
  printData,       \* useState<FormData | null>(null)
  itemsList,       \* useState<string[]>([])            (variant A)
  isLoadingItems,  \* useState(true)                    (variant A)
  newItemName,     \* useState('')                      (variant A)
  catalogFetch,    \* the GET of fetchItems: "pending", "done", "none" (B)
  fetchedText,     \* history: the text response.text() gave, or None
  post,            \* the POST of handleSubmit in flight, or None
  last,            \* history: the handler or continuation that ran last
  failures,        \* history: POSTs that threw in a row, each retried at
                   \* once, counted up to MaxFailures
  edits            \* history: number of edit events so far, up to MaxEdits

vars == << variant, formData, submitted, error, isSubmitting, printData,
           itemsList, isLoadingItems, newItemName, catalogFetch,
           fetchedText, post, last, failures, edits >>

catalogVars ==
  << itemsList, isLoadingItems, newItemName, catalogFetch, fetchedText >>

\* const displayData = printData || formData;
DisplayData == IF printData # None THEN printData[1] ELSE formData

Init ==
  /\ variant \in Variants
  /\ formData = InitialFormData(variant)
  /\ submitted = FALSE
  /\ error = None
  /\ isSubmitting = FALSE
  /\ printData = None
  /\ itemsList = <<>>
  /\ isLoadingItems = (variant = "A")
  /\ newItemName = ""
  /\ catalogFetch = IF variant = "A" THEN "pending" ELSE "none"
  /\ fetchedText = None
  /\ post = None
  /\ last = "load"
  /\ failures = 0
  /\ edits = 0

(***************************************************************************)
(* The inputs the user can give: the options of each select, and a small   *)
(* set of texts for each free-text input.                                  *)
(***************************************************************************)
Range(seq) == {seq[i] : i \in DOMAIN seq}

\* Variant A inspects the email and the mobile number, so it is given one
\* value for each way the checks can go; variant B never reads them and is
\* given one valid and one invalid value.
EmailValues(v) ==
  IF v = "A"
  THEN {"asha@lnmiit.ac.in", "asha@gmail.com", "asha@lnmiit.ac.in.org"}
  ELSE {"asha@lnmiit.ac.in", "asha@gmail.com"}

MobileValues(v) ==
  IF v = "A"
  THEN {"9876543210", "987654321", "98765432100", "98765x3210"}
  ELSE {"9876543210", "987654321"}

NewItemTexts == {"  ", " Drill "}

CatalogTexts == {"Item,Stock\n Iron ,5\n\n", "Item,Stock"}

\* Response texts built from rows: a header line followed by up to
\* MaxCatalogRows lines, each drawn from CatalogRows (a plain row, a row
\* with spaces around its first column, a blank line, a row whose first
\* column is blank, a row without comma, a row ending in a carriage
\* return), and the empty response.
CatalogHeader == "Item,Stock"

CatalogRows == {"Iron,5", " Meter ,2", "", " ,7", "Drill", "Saw,1\r"}

CatalogRowSeqs == UNION {[1 .. n -> CatalogRows] : n \in 0 .. MaxCatalogRows}

RECURSIVE JoinLines(_)
JoinLines(rows) ==
  IF Len(rows) = 0 THEN ""
  ELSE "\n" \o rows[1] \o JoinLines(SubSeq(rows, 2, Len(rows)))

CatalogTextOf(rows) == CatalogHeader \o JoinLines(rows)

WideCatalogTexts == {""} \cup {CatalogTextOf(rows) : rows \in CatalogRowSeqs}

\* The <option> values of the department select the user picks from: one
\* named department and the "Others" escape.
DepartmentChoices == {departments[5], departments[8]}

\* <option> values of a select, or the texts typed into an input.
FieldValues(v, name) ==
  CASE name = "userType" ->
         IF v = "A" THEN {"student", "faculty", "staff"}
         ELSE {"student", "faculty"}
    [] name = "department" ->
         IF v = "A" THEN DepartmentChoices ELSE {"Physics"}
    [] name = "email" -> EmailValues(v)
    [] name = "mobile" -> MobileValues(v)
    [] name = "name" -> {"Asha Rao"}
    [] name = "id" -> {"2021UCS001"}
    [] name = "otherDepartment" -> {"Design"}
    [] name = "instructorName" -> {"Dr. Rao"}
    [] name = "issueDate" -> {"2024-01-10"}
    [] name = "returnDate" -> {"2024-01-20"}

\* Values of the controls of an item row.  In variant A the name is a
\* select over the catalog plus the two fixed options (lines 439-445).
ItemFieldValues(v, field) ==
  CASE field = "name" ->
         IF v = "A" THEN {"other"} \cup Range(itemsList)
         ELSE {"Soldering Iron"}
    [] field = "quantity" -> {"1"}
    [] field = "issueDate" -> {"2024-01-10"}
    [] field = "returnDate" -> {"2024-01-20"}
    [] field = "remark" -> {"urgent"}

ItemFields(v) ==
  IF v = "A" THEN {"name", "quantity"}
  ELSE {"name", "quantity", "issueDate", "returnDate", "remark"}

(***************************************************************************)
(* What the JSX renders and enables.                                       *)
(***************************************************************************)
\* Mutant: the controls stay enabled after submission.
controlsAlwaysEnabled == TRUE

\* disabled={submitted} on every input and select; {!submitted && ...}
\* around the add, remove and new-item controls.
controlsEnabled == ~submitted

\* Mutant: the submit button is not hidden once submitted.
submitEnabledWhileSubmitted == ~isSubmitting

\* Mutant: the submit button is not disabled while a POST is in flight.
submitEnabledWhileSubmitting == ~submitted

\* The submit button: rendered when !submitted, disabled={isSubmitting}.
submitEnabled == ~submitted /\ ~isSubmitting

\* The Close and Print buttons of the dialog: {submitted && ...}.
dialogShown == submitted

\* The named inputs on the page.  otherDepartment and instructorName are
\* rendered on a condition over formData (not displayData).
\* Mutant: the two dependent inputs rendered whatever their controlling
\* fields hold.
RenderedInputsUnconditional ==
  IF variant = "A"
  THEN {"userType", "name", "id", "department", "mobile", "email",
        "issueDate", "returnDate", "otherDepartment", "instructorName"}
  ELSE {"userType", "name", "id", "department", "mobile", "email"}

RenderedInputs ==
  IF variant = "A"
  THEN {"userType", "name", "id", "department", "mobile", "email",
        "issueDate", "returnDate"}
       \cup (IF formData.department = "Others" THEN {"otherDepartment"} ELSE {})
       \cup (IF formData.userType = "student" THEN {"instructorName"} ELSE {})
  ELSE {"userType", "name", "id", "department", "mobile", "email"}

\* displayData.items.map((item, index) => ...): the 0-based row indices the
\* handlers are bound to.
RenderedRows == 0 .. (Len(DisplayData.items) - 1)

\* {item.name === 'other' && !submitted && (...)}: rows showing the
\* new-item input and its Add button.
NewItemRows ==
  IF variant = "A"
  THEN {i \in RenderedRows :
          DisplayData.items[i + 1].name = "other" /\ ~submitted}
  ELSE {}

(***************************************************************************)
(* The state transformers of the handlers.                                 *)
(***************************************************************************)
\* Mutant: handleInputChange without the clearing of otherDepartment.
inputChangeAKeepsOther(fd, name, value) ==
  LET f1 == [fd EXCEPT ![name] = value]
  IN IF name = "userType" /\ (value = "faculty" \/ value = "staff")
     THEN [f1 EXCEPT !.instructorName = ""] ELSE f1

\* Mutant: instructorName cleared for faculty only.
inputChangeAFacultyOnly(fd, name, value) ==
  LET f1 == [fd EXCEPT ![name] = value]
      f2 == IF name = "department" /\ value # "Others"
            THEN [f1 EXCEPT !.otherDepartment = ""] ELSE f1
  IN IF name = "userType" /\ value = "faculty"
     THEN [f2 EXCEPT !.instructorName = ""] ELSE f2

\* handleInputChange of variant A, lines 75-83
inputChangeA(fd, name, value) ==
  LET f1 == [fd EXCEPT ![name] = value]
      f2 == IF name = "department" /\ value # "Others"
            THEN [f1 EXCEPT !.otherDepartment = ""] ELSE f1
      f3 == IF name = "userType" /\ (value = "faculty" \/ value = "staff")
            THEN [f2 EXCEPT !.instructorName = ""] ELSE f2
  IN f3

\* Mutant: the new state built without spreading the old item list.
inputChangeBDropsItems(fd, name, value) ==
  [[fd EXCEPT !.items = <<EmptyItem("B")>>] EXCEPT ![name] = value]

\* handleInputChange of variant B, lines 723-725
inputChangeB(fd, name, value) == [fd EXCEPT ![name] = value]

\* handleItemChange: formData.items.map(...), index 0-based
itemChange(fd, index, field, value) ==
  [fd EXCEPT !.items =
     [i \in DOMAIN fd.items |->
        IF i - 1 = index THEN [fd.items[i] EXCEPT ![field] = value]
        ELSE fd.items[i]]]

\* addItem: [...formData.items, {empty row}]
itemAdded(v, fd) == [fd EXCEPT !.items = Append(fd.items, EmptyItem(v))]

\* formData.items.filter((_, i) => i !== index)
RECURSIVE FilterOutIndex(_, _, _)
FilterOutIndex(items, index, i) ==
  IF items = <<>> THEN <<>>
  ELSE (IF i # index THEN <<Head(items)>> ELSE <<>>)
       \o FilterOutIndex(Tail(items), index, i + 1)

\* Mutant: removal without the length check.
itemRemovedUnguarded(fd, index) ==
  [fd EXCEPT !.items = FilterOutIndex(fd.items, index, 0)]

\* Mutant: the length check written as >= 1.
itemRemovedAtOne(fd, index) ==
  IF Len(fd.items) >= 1
  THEN [fd EXCEPT !.items = FilterOutIndex(fd.items, index, 0)]
  ELSE fd

\* Mutant: removal of the last row whatever the index.
itemRemovedPop(fd, index) ==
  IF Len(fd.items) > 1
  THEN [fd EXCEPT !.items = SubSeq(fd.items, 1, Len(fd.items) - 1)]
  ELSE fd

\* removeItem: only when formData.items.length > 1
itemRemoved(fd, index) ==
  IF Len(fd.items) > 1
  THEN [fd EXCEPT !.items = FilterOutIndex(fd.items, index, 0)]
  ELSE fd

\* String.prototype.includes, for the mutant below.
Includes(s, sub) ==
  \E k \in 1 .. (Len(s) - Len(sub) + 1) : SubSeq(s, k, k + Len(sub) - 1) = sub

\* Mutant: the email check with includes in place of endsWith.
validateFormIncludes(fd) ==
  IF ~Includes(fd.email, EmailSuffix) THEN Some(EmailError)
  ELSE IF ~MatchesMobile(fd.mobile) THEN Some(MobileError)
  ELSE None

\* validateForm: None when it returns true, otherwise the message it
\* passes to setError before returning false.
validateForm(fd) ==
  IF ~EndsWith(fd.email, EmailSuffix) THEN Some(EmailError)
  ELSE IF ~MatchesMobile(fd.mobile) THEN Some(MobileError)
  ELSE None

\* Whether handleSubmit goes on to the POST: variant A returns early when
\* validateForm is false; variant B calls no validator.
submitProceeds(v, fd) == IF v = "A" THEN validateForm(fd) = None ELSE TRUE

\* Mutant: the body without the department substitution.
postBodyPlain(v, fd) == fd

\* The object handed to JSON.stringify, lines 150-153 and 765.
postBody(v, fd) ==
  IF v = "A"
  THEN [fd EXCEPT !.department =
          IF fd.department = "Others" THEN fd.otherDepartment
          ELSE fd.department]
  ELSE fd

(***************************************************************************)
(* The actions: one per event handler or continuation.                     *)
(***************************************************************************)
\* An edit event is counted in the edit budget of the model.
Edit(op) ==
  /\ edits < MaxEdits
  /\ edits' = edits + 1
  /\ last' = op
  /\ failures' = 0

\* Any other event, except those of handleSubmit, which keep "failures".
NoEdit(op) ==
  /\ edits' = edits
  /\ last' = op
  /\ failures' = 0

Submission(op) ==
  /\ edits' = edits
  /\ last' = op

handleInputChange ==
  /\ controlsEnabled
  /\ \E name \in RenderedInputs :
       \E value \in FieldValues(variant, name) :
         formData' = IF variant = "A" THEN inputChangeA(formData, name, value)
                     ELSE inputChangeB(formData, name, value)
  /\ Edit("handleInputChange")
  /\ UNCHANGED << variant, submitted, error, isSubmitting, printData,
                  catalogVars, post >>

handleItemChange ==
  /\ controlsEnabled
  /\ \E index \in RenderedRows :
       \E field \in ItemFields(variant) :
         \E value \in ItemFieldValues(variant, field) :
           formData' = itemChange(formData, index, field, value)
  /\ Edit("handleItemChange")
  /\ UNCHANGED << variant, submitted, error, isSubmitting, printData,
                  catalogVars, post >>

addItem ==
  /\ controlsEnabled
  /\ Len(formData.items) < MaxItems
  /\ formData' = itemAdded(variant, formData)
  /\ Edit("addItem")
  /\ UNCHANGED << variant, submitted, error, isSubmitting, printData,
                  catalogVars, post >>

removeItem ==
  /\ controlsEnabled
  /\ \E index \in RenderedRows : formData' = itemRemoved(formData, index)
  /\ Edit("removeItem")
  /\ UNCHANGED << variant, submitted, error, isSubmitting, printData,
                  catalogVars, post >>

\* onChange of the new-item input: setNewItemName(e.target.value)
setNewItemName ==
  /\ NewItemRows # {}
  /\ \E value \in NewItemTexts : newItemName' = value
  /\ Edit("setNewItemName")
  /\ UNCHANGED << variant, formData, submitted, error, isSubmitting,
                  printData, itemsList, isLoadingItems, catalogFetch,
                  fetchedText, post >>

handleNewItemSubmit ==
  /\ \E index \in NewItemRows :
       IF Truthy(Trim(newItemName))
       THEN /\ itemsList' = Append(itemsList, Trim(newItemName))
            /\ formData' = itemChange(formData, index, "name", Trim(newItemName))
            /\ newItemName' = ""
       ELSE UNCHANGED << itemsList, formData, newItemName >>
  /\ Edit("handleNewItemSubmit")
  /\ UNCHANGED << variant, submitted, error, isSubmitting, printData,
                  isLoadingItems, catalogFetch, fetchedText, post >>

\* Mutant: handleSubmit without its setError(null).
handleSubmitKeepsError ==
  /\ submitEnabled
  /\ IF submitProceeds(variant, formData)
     THEN /\ error' = error
          /\ isSubmitting' = TRUE
          /\ post' = Some([closure |-> formData,
                           body |-> postBody(variant, formData)])
     ELSE /\ error' = validateForm(formData)
          /\ UNCHANGED << isSubmitting, post >>
  /\ Submission("handleSubmit")
  /\ UNCHANGED << variant, formData, submitted, printData, catalogVars,
                  failures >>

\* handleSubmit up to its await.
handleSubmit ==
  /\ submitEnabled
  /\ IF submitProceeds(variant, formData)
     THEN /\ error' = None
          /\ isSubmitting' = TRUE
          /\ post' = Some([closure |-> formData,
                           body |-> postBody(variant, formData)])
     ELSE /\ error' = validateForm(formData)
          /\ UNCHANGED << isSubmitting, post >>
  /\ Submission("handleSubmit")
  /\ UNCHANGED << variant, formData, submitted, printData, catalogVars,
                  failures >>

\* Mutant: a continuation that snapshots the form state of completion time.
handleSubmitResolvedCurrent ==
  /\ post # None
  /\ printData' = Some(formData)
  /\ submitted' = TRUE
  /\ isSubmitting' = FALSE
  /\ post' = None
  /\ NoEdit("handleSubmitResolved")
  /\ UNCHANGED << variant, formData, error, catalogVars >>

\* The fetch of handleSubmit did not throw: setPrintData({...formData}) with
\* the formData of the closure, setSubmitted(true), then the finally block.
handleSubmitResolved ==
  /\ post # None
  /\ printData' = Some(post[1].closure)
  /\ submitted' = TRUE
  /\ isSubmitting' = FALSE
  /\ post' = None
  /\ NoEdit("handleSubmitResolved")
  /\ UNCHANGED << variant, formData, error, catalogVars >>

\* Mutant: the catch block without the finally block.
handleSubmitThrewNoFinally ==
  /\ post # None
  /\ error' = Some(SubmitError)
  /\ post' = None
  /\ failures' = IF failures < MaxFailures THEN failures + 1 ELSE failures
  /\ Submission("handleSubmitThrew")
  /\ UNCHANGED << variant, formData, submitted, isSubmitting, printData,
                  catalogVars >>

\* The fetch of handleSubmit threw: the catch block, then the finally block.
handleSubmitThrew ==
  /\ post # None
  /\ error' = Some(SubmitError)
  /\ isSubmitting' = FALSE
  /\ post' = None
  /\ failures' = IF failures < MaxFailures THEN failures + 1 ELSE failures
  /\ Submission("handleSubmitThrew")
  /\ UNCHANGED << variant, formData, submitted, printData, catalogVars >>

\* window.print() changes no state of the component.
handlePrint ==
  /\ dialogShown
  /\ NoEdit("handlePrint")
  /\ UNCHANGED << variant, formData, submitted, error, isSubmitting,
                  printData, catalogVars, post >>

\* Mutant: handleClose resetting every field but the item list.
handleCloseKeepsItems ==
  /\ dialogShown
  /\ submitted' = FALSE
  /\ formData' = [ClosedFormData(variant) EXCEPT !.items = formData.items]
  /\ NoEdit("handleClose")
  /\ UNCHANGED << variant, error, isSubmitting, printData, catalogVars, post >>

handleClose ==
  /\ dialogShown
  /\ submitted' = FALSE
  /\ formData' = ClosedFormData(variant)
  /\ NoEdit("handleClose")
  /\ UNCHANGED << variant, error, isSubmitting, printData, catalogVars, post >>

\* fetchItems after both awaits, for a response text among "texts": the
\* text is parsed and replaces itemsList.
fetchItemsResolvedFrom(texts) ==
  /\ catalogFetch = "pending"
  /\ \E text \in texts :
       /\ itemsList' = ParseCatalog(text)
       /\ fetchedText' = Some(text)
  /\ isLoadingItems' = FALSE
  /\ catalogFetch' = "done"
  /\ NoEdit("fetchItemsResolved")
  /\ UNCHANGED << variant, formData, submitted, error, isSubmitting,
                  printData, newItemName, post >>

fetchItemsResolved == fetchItemsResolvedFrom(CatalogTexts)

\* Mutant: a catch block that empties the catalog.
fetchItemsThrewClears ==
  /\ catalogFetch = "pending"
  /\ itemsList' = <<>>
  /\ isLoadingItems' = FALSE
  /\ catalogFetch' = "done"
  /\ NoEdit("fetchItemsThrew")
  /\ UNCHANGED << variant, formData, submitted, error, isSubmitting,
                  printData, newItemName, fetchedText, post >>

\* fetch() or response.text() threw: the catch block logs, finally runs.
fetchItemsThrew ==
  /\ catalogFetch = "pending"
  /\ isLoadingItems' = FALSE
  /\ catalogFetch' = "done"
  /\ NoEdit("fetchItemsThrew")
  /\ UNCHANGED << variant, formData, submitted, error, isSubmitting,
                  printData, itemsList, newItemName, fetchedText, post >>

\* The same continuation for the response texts built from rows.
fetchItemsResolvedWide == fetchItemsResolvedFrom(WideCatalogTexts)

Next ==
  \/ handleInputChange
  \/ handleItemChange
  \/ addItem
  \/ removeItem
  \/ setNewItemName
  \/ handleNewItemSubmit
  \/ handleSubmit
  \/ handleSubmitResolved
  \/ handleSubmitThrew
  \/ handlePrint
  \/ handleClose
  \/ fetchItemsResolved
  \/ fetchItemsThrew

Spec == Init /\ [][Next]_vars

(***************************************************************************)
(* The same program when the POST call of handleSubmit does not stay       *)
(* pending for ever: the await of line 145 (variant B line 759) eventually *)
(* resumes, by completion or by a throw.  The page starts as in Init, in   *)
(* either variant, with one edit of the budget already spent: what is      *)
(* checked is a property of the submission, not of how much was edited.    *)
(***************************************************************************)
InitLive ==
  /\ variant \in Variants
  /\ formData = InitialFormData(variant)
  /\ submitted = FALSE
  /\ error = None
  /\ isSubmitting = FALSE
  /\ printData = None
  /\ itemsList = <<>>
  /\ isLoadingItems = (variant = "A")
  /\ newItemName = ""
  /\ catalogFetch = IF variant = "A" THEN "pending" ELSE "none"
  /\ fetchedText = None
  /\ post = None
  /\ last = "load"
  /\ failures = 0
  /\ edits = 1

SpecLive ==
  /\ InitLive
  /\ [][Next]_vars
  /\ WF_vars(handleSubmitResolved \/ handleSubmitThrew)

(***************************************************************************)
(* The catalog loader alone: variant A at page load, and the one fetch of  *)
(* fetchItems resolving with any of the texts built from rows, or          *)
(* throwing.                                                               *)
(***************************************************************************)
InitCatalog == Init /\ variant = "A"

NextCatalog ==
  \/ fetchItemsResolvedWide
  \/ fetchItemsThrew

SpecCatalog == InitCatalog /\ [][NextCatalog]_vars

(***************************************************************************)
(* Variant A from a form already filled in: a valid email and mobile       *)
(* typed, a second row added and '+ Add New Item' chosen on it (four       *)
(* handler calls after page load), with the edit budget starting there.    *)
(***************************************************************************)
FilledFormData ==
  [InitialFormData("A") EXCEPT
     !.email = "asha@lnmiit.ac.in",
     !.mobile = "9876543210",
     !.items = <<EmptyItem("A"), [name |-> "other", quantity |-> ""]>>]

InitFilled ==
  /\ variant = "A"
  /\ formData = FilledFormData
  /\ submitted = FALSE
  /\ error = None
  /\ isSubmitting = FALSE
  /\ printData = None
  /\ itemsList = <<>>
  /\ isLoadingItems = TRUE
  /\ newItemName = ""
  /\ catalogFetch = "pending"
  /\ fetchedText = None
  /\ post = None
  /\ last = "handleItemChange"
  /\ failures = 0
  /\ edits = 0

SpecFilled == InitFilled /\ [][Next]_vars

TypeOK ==
  /\ variant \in Variants
  /\ submitted \in BOOLEAN
  /\ isSubmitting \in BOOLEAN
  /\ Len(formData.items) <= MaxItems

(***************************************************************************)
(* Vocabulary of the properties, stated apart from the operators the       *)
(* actions use.                                                            *)
(***************************************************************************)
\* e is some prefix followed by the institutional suffix.
HasSuffix(e) == \E k \in 0 .. Len(e) : e = SubSeq(e, 1, k) \o EmailSuffix

\* m is a string of exactly ten decimal digits.
TenDigits(m) == Len(m) = 10 /\ \A i \in 1 .. Len(m) : CharAt(m, i) \in Digits

\* The lifecycle phase derived from (submitted, isSubmitting).
Phase ==
  CASE ~submitted /\ ~isSubmitting -> "Editing"
    [] ~submitted /\ isSubmitting -> "Submitting"
    [] submitted /\ ~isSubmitting -> "Submitted"
    [] submitted /\ isSubmitting -> "SubmittedAndSubmitting"

(***************************************************************************)
(* C1: in both variants the item list of the form state has at least one   *)
(* row in every reachable state.                                           *)
(***************************************************************************)
C1_AtLeastOneItem == Len(formData.items) >= 1

\* removeItem has run and left a single row.
C1_Witness == last = "removeItem" /\ Len(formData.items) = 1

(***************************************************************************)
(* C2: variant A, every step of handleSubmit: when the email does not end  *)
(* with the suffix, no POST is issued, the error is the email message      *)
(* whatever the mobile number is, and submitted, isSubmitting, formData    *)
(* and printData are as before; when it does end with the suffix, the      *)
(* email message is not the outcome.                                       *)
(***************************************************************************)
C2_EmailGate ==
  [][ (variant = "A" /\ last' = "handleSubmit") =>
        IF ~HasSuffix(formData.email)
        THEN /\ post' = None
             /\ error' = Some(EmailError)
             /\ ~submitted' /\ ~isSubmitting'
             /\ formData' = formData
             /\ printData' = printData
        ELSE error' # Some(EmailError) ]_vars

\* A submit blocked on the email although the mobile number is valid.
C2_Witness ==
  /\ variant = "A" /\ last = "handleSubmit"
  /\ ~HasSuffix(formData.email) /\ formData.email # ""
  /\ TenDigits(formData.mobile)
  /\ error = Some(EmailError) /\ post = None

(***************************************************************************)
(* C3: variant A, every step of handleSubmit with a valid email: the       *)
(* submission proceeds to the POST exactly when the mobile number is ten   *)
(* decimal digits; otherwise no POST is issued, the error is the mobile    *)
(* message, and submitted, isSubmitting and formData are as before.        *)
(***************************************************************************)
C3_MobileGate ==
  [][ (variant = "A" /\ last' = "handleSubmit" /\ HasSuffix(formData.email)) =>
        IF TenDigits(formData.mobile)
        THEN post' # None /\ error' = None
        ELSE /\ post' = None
             /\ error' = Some(MobileError)
             /\ ~submitted' /\ ~isSubmitting'
             /\ formData' = formData ]_vars

\* A submit with a valid email blocked on an eleven-digit mobile number.
C3_Witness ==
  /\ variant = "A" /\ last = "handleSubmit"
  /\ HasSuffix(formData.email)
  /\ Len(formData.mobile) > 10
  /\ error = Some(MobileError) /\ post = None

(***************************************************************************)
(* C4: in both variants a POST is in flight only for a form whose email    *)
(* ends with the suffix and whose mobile number is ten digits.             *)
(***************************************************************************)
C4_ValidatorGatesBothVariants ==
  post # None =>
    HasSuffix(post[1].body.email) /\ TenDigits(post[1].body.mobile)

(***************************************************************************)
(* C5: the lifecycle phase changes only by Editing -> Submitting (submit   *)
(* accepted), Submitting -> Submitted (POST did not throw), Submitting ->  *)
(* Editing with the error set (POST threw), Submitted -> Editing (close).  *)
(***************************************************************************)
C5_Lifecycle ==
  [][ \/ Phase' = Phase
      \/ /\ Phase = "Editing" /\ Phase' = "Submitting"
         /\ last' = "handleSubmit"
      \/ /\ Phase = "Submitting" /\ Phase' = "Submitted"
         /\ last' = "handleSubmitResolved"
      \/ /\ Phase = "Submitting" /\ Phase' = "Editing"
         /\ last' = "handleSubmitThrew" /\ error' # None
      \/ /\ Phase = "Submitted" /\ Phase' = "Editing"
         /\ last' = "handleClose" ]_vars

\* A whole cycle has been run: submitted, closed, and submitting again.
C5_Witness == Phase = "Submitting" /\ printData # None

(***************************************************************************)
(* C6: whenever submitted is false, the data the form displays is the      *)
(* current form state.                                                     *)
(***************************************************************************)
C6_EditingDisplaysFormState == ~submitted => DisplayData = formData

(***************************************************************************)
(* C7: in both variants close sets submitted to false and the form state   *)
(* to its page-load value, whatever the form state was.                    *)
(***************************************************************************)
C7_CloseResets ==
  [][ last' = "handleClose" =>
        ~submitted' /\ formData' = InitialFormData(variant) ]_vars

\* Closed after a submission with more than one row, edited while in
\* flight or not.
C7_Witness ==
  /\ last = "handleClose" /\ ~submitted
  /\ printData # None /\ Len(printData[1].items) > 1
  /\ formData = InitialFormData(variant)

(***************************************************************************)
(* C8: while submitted is true only print, close and the catalog fetch     *)
(* can take a step; the form state and the snapshot are unchanged by every *)
(* step until close, and print changes no state.                           *)
(***************************************************************************)
C8_SubmittedIsTerminal ==
  [][ submitted =>
        /\ last' \in {"handlePrint", "handleClose", "fetchItemsResolved",
                      "fetchItemsThrew"}
        /\ submitted' => (formData' = formData /\ printData' = printData)
        /\ ~submitted' => last' = "handleClose"
        /\ last' = "handlePrint" =>
             << variant, formData, submitted, error, isSubmitting, printData,
                catalogVars, post >>' =
             << variant, formData, submitted, error, isSubmitting, printData,
                catalogVars, post >> ]_vars

\* Print has run on a submitted form that still has edit budget left.
C8_Witness == submitted /\ last = "handlePrint" /\ edits < MaxEdits

(***************************************************************************)
(* C9: when the POST completes without throwing, the next state has        *)
(* submitted true, the snapshot holding the form values that were          *)
(* submitted, isSubmitting false and no error.                             *)
(***************************************************************************)
C9_AssumeSuccess ==
  [][ last' = "handleSubmitResolved" =>
        /\ submitted'
        /\ printData' # None
        /\ postBody(variant, printData'[1]) = post[1].body
        /\ printData'[1] = post[1].closure
        /\ ~isSubmitting'
        /\ error' = None ]_vars

\* A POST of variant A has completed and the receipt is shown; the form
\* was edited while the POST was in flight, so the snapshot is not the
\* current form state.
C9_Witness ==
  /\ last = "handleSubmitResolved" /\ submitted /\ printData # None
  /\ variant = "A" /\ error = None
  /\ printData[1] # formData

(***************************************************************************)
(* C10: when the POST throws, the error is the connectivity message,       *)
(* submitted stays false, the snapshot and the form state are unchanged,   *)
(* isSubmitting is false and submit is enabled again, after any number of  *)
(* failures in a row.                                                      *)
(***************************************************************************)
C10_FailureIsRetriable ==
  [][ last' = "handleSubmitThrew" =>
        /\ error' = Some(SubmitError)
        /\ ~submitted'
        /\ printData' = printData
        /\ formData' = formData
        /\ ~isSubmitting'
        /\ post' = None
        /\ submitEnabled' ]_vars

\* The POST has thrown at least twice in a row and submit is enabled.
C10_Witness ==
  /\ last = "handleSubmitThrew" /\ failures >= 2
  /\ error = Some(SubmitError) /\ submitEnabled

(***************************************************************************)
(* C11: the body of the POST is the form state at the moment of submit;    *)
(* in variant A with department replaced by otherDepartment when it is     *)
(* 'Others' and every other field and the item list as they are, in        *)
(* variant B unchanged.                                                    *)
(***************************************************************************)
C11_PostBody ==
  [][ (last' = "handleSubmit" /\ post' # None) =>
        LET body == post'[1].body IN
        /\ DOMAIN body = DOMAIN formData
        /\ \A f \in DOMAIN formData \ {"department"} : body[f] = formData[f]
        /\ body.department =
             IF variant = "A" /\ formData.department = "Others"
             THEN formData.otherDepartment
             ELSE formData.department ]_vars

\* A POST of variant A in flight for a form with department 'Others': the
\* body carries otherDepartment in its place.
C11_Witness ==
  /\ variant = "A" /\ post # None
  /\ post[1].closure.department = "Others"
  /\ post[1].body.department = post[1].closure.otherDepartment
  /\ post[1].body.department # "Others"
  /\ post[1].body.items = post[1].closure.items

(***************************************************************************)
(* C12: variant A, a change of department to a value other than 'Others'   *)
(* leaves otherDepartment empty; a change to 'Others' leaves it as it was. *)
(***************************************************************************)
C12_DepartmentClearsOther ==
  [][ (variant = "A" /\ last' = "handleInputChange"
       /\ formData'.department # formData.department) =>
        IF formData'.department # "Others"
        THEN formData'.otherDepartment = ""
        ELSE formData'.otherDepartment = formData.otherDepartment ]_vars

\* 'Others' was chosen, a department typed, and a named department chosen:
\* three edits that leave only the department set.
C12_Witness ==
  /\ variant = "A" /\ last = "handleInputChange" /\ edits = 3
  /\ formData = [InitialFormData("A") EXCEPT !.department = "Physics"]

(***************************************************************************)
(* C13: variant A, a change of the requester category to 'faculty' or      *)
(* 'staff' leaves instructorName empty; a change to 'student' leaves it as *)
(* it was.                                                                 *)
(***************************************************************************)
C13_UserTypeClearsInstructor ==
  [][ (variant = "A" /\ last' = "handleInputChange"
       /\ formData'.userType # formData.userType) =>
        IF formData'.userType \in {"faculty", "staff"}
        THEN formData'.instructorName = ""
        ELSE formData'.instructorName = formData.instructorName ]_vars

\* The category was changed to 'staff' and nothing else is set.
C13_Witness ==
  /\ variant = "A" /\ last = "handleInputChange" /\ edits >= 2
  /\ formData = [InitialFormData("A") EXCEPT !.userType = "staff"]

(***************************************************************************)
(* C14: in both variants a step of handleInputChange changes one named     *)
(* field, plus otherDepartment when that field is department and           *)
(* instructorName when it is userType (variant A); every other field, the  *)
(* item list, submitted, error, isSubmitting, the snapshot and the catalog *)
(* are unchanged.                                                          *)
(***************************************************************************)
C14_InputChangeFrame ==
  [][ last' = "handleInputChange" =>
        LET Changed == {f \in DOMAIN formData : formData'[f] # formData[f]} IN
        /\ DOMAIN formData' = DOMAIN formData
        /\ \E x \in RenderedInputs :
             Changed \subseteq
               {x} \cup (IF variant = "A" /\ x = "department"
                         THEN {"otherDepartment"} ELSE {})
                   \cup (IF variant = "A" /\ x = "userType"
                         THEN {"instructorName"} ELSE {})
        /\ formData'.items = formData.items
        /\ submitted' = submitted
        /\ error' = error
        /\ isSubmitting' = isSubmitting
        /\ printData' = printData
        /\ itemsList' = itemsList
        /\ newItemName' = newItemName
        /\ post' = post ]_vars

\* A field of variant B was set on a form with two rows, one of them
\* filled in.
C14_Witness ==
  /\ variant = "B" /\ last = "handleInputChange"
  /\ formData.name = "Asha Rao"
  /\ Len(formData.items) = 2 /\ formData.items[1].quantity = "1"

(***************************************************************************)
(* C15: in both variants removeItem on an item list of one row changes     *)
(* nothing of the form state, whatever the index.                          *)
(***************************************************************************)
C15_RemoveLastRowIsNoOp ==
  [][ (last' = "removeItem" /\ Len(formData.items) = 1) =>
        formData' = formData ]_vars

\* Two edits, the second a removeItem, and the single row still holds the
\* quantity the first edit gave it.
C15_Witness ==
  /\ last = "removeItem" /\ edits = 2
  /\ Len(formData.items) = 1 /\ formData.items[1].quantity = "1"

(***************************************************************************)
(* C16: in both variants, for the item list L of any reachable form state: *)
(* addItem followed by removeItem at index Len(L) gives L again, and       *)
(* removeItem at any other index i of L gives L without its i-th row       *)
(* followed by the new empty row.                                          *)
(***************************************************************************)
WithoutRow(L, i) == SubSeq(L, 1, i) \o SubSeq(L, i + 2, Len(L))

C16_AddThenRemove ==
  LET L == formData.items
      added == itemAdded(variant, formData)
  IN /\ itemRemoved(added, Len(L)).items = L
     /\ \A i \in 0 .. (Len(L) - 1) :
          itemRemoved(added, i).items =
            WithoutRow(L, i) \o <<EmptyItem(variant)>>

\* Three edits ending in removeItem have left a filled row as the whole
\* list, as when a row was filled in, a row added and the added row removed.
C16_Witness ==
  /\ last = "removeItem" /\ edits = 3 /\ printData = None
  /\ Len(formData.items) = 1 /\ formData.items[1].quantity = "1"

(***************************************************************************)
(* C17: variant A, when the catalog fetch returns a text, the catalog is   *)
(* the first comma-separated column, trimmed, of every row after the       *)
(* header row, the empty values dropped, in row order; a text with only a  *)
(* header or only blank rows gives an empty catalog, and no error.         *)
(***************************************************************************)
\* The catalog entry a row of CatalogRows stands for, "" for none.
RowName(row) ==
  CASE row = "Iron,5" -> "Iron"
    [] row = " Meter ,2" -> "Meter"
    [] row = "" -> ""
    [] row = " ,7" -> ""
    [] row = "Drill" -> "Drill"
    [] row = "Saw,1\r" -> "Saw"

RECURSIVE NamesOf(_)
NamesOf(rows) ==
  IF Len(rows) = 0 THEN <<>>
  ELSE (IF RowName(rows[1]) = "" THEN <<>> ELSE <<RowName(rows[1])>>)
       \o NamesOf(SubSeq(rows, 2, Len(rows)))

C17_CatalogParsed ==
  fetchedText # None =>
    /\ fetchedText[1] = "" => itemsList = <<>>
    /\ \A rows \in CatalogRowSeqs :
         fetchedText[1] = CatalogTextOf(rows) => itemsList = NamesOf(rows)
    /\ error = None
    /\ ~isLoadingItems

\* A text with a spaced row, a blank line and a plain row was fetched.
C17_Witness ==
  /\ fetchedText = Some("Item,Stock\n Meter ,2\n\nIron,5")
  /\ itemsList = <<"Meter", "Iron">>
  /\ last = "fetchItemsResolved"

(***************************************************************************)
(* C18: variant A, confirming a non-empty new item name on row i appends   *)
(* the name to the end of the catalog, makes it the name of row i, leaves  *)
(* every other row and field unchanged and clears the pending text;        *)
(* confirming an empty value changes neither the catalog nor any row.      *)
(* The name is read as the trimmed text and a text of spaces as empty,     *)
(* which is what the handler does; the statement without that reading is   *)
(* stronger.  Row i is one of the rows showing the new-item input.         *)
(***************************************************************************)
ConfirmedOn(index) ==
  IF Trim(newItemName) # ""
  THEN /\ itemsList' = Append(itemsList, Trim(newItemName))
       /\ index + 1 \in DOMAIN formData.items
       /\ formData' =
            [formData EXCEPT !.items[index + 1].name = Trim(newItemName)]
       /\ newItemName' = ""
  ELSE /\ itemsList' = itemsList
       /\ formData' = formData

C18_NewItemConfirmed ==
  [][last' = "handleNewItemSubmit" =>
       \E index \in NewItemRows : ConfirmedOn(index)]_vars

(***************************************************************************)
(* C19: variant A, when the catalog fetch throws, the catalog is left as   *)
(* it was (only names the user added, none when nothing was added), the    *)
(* form's error is not set, the loading flag becomes false, and the field  *)
(* edits, the add-new-item path and submit stay as enabled as they were;   *)
(* the fetch is attempted once per page load and never again.              *)
(***************************************************************************)
AddedNames == {Trim(text) : text \in NewItemTexts}

C19_FetchFailure ==
  [][/\ last' = "fetchItemsThrew" =>
          /\ variant = "A"
          /\ itemsList' = itemsList
          /\ Range(itemsList') \subseteq AddedNames
          /\ error' = error
          /\ isLoadingItems' = FALSE
          /\ formData' = formData
          /\ controlsEnabled' = controlsEnabled
          /\ submitEnabled' = submitEnabled
          /\ NewItemRows' = NewItemRows
     /\ last' \in {"fetchItemsThrew", "fetchItemsResolved"} =>
          /\ catalogFetch = "pending"
          /\ fetchedText = None
     /\ catalogFetch # "pending" => catalogFetch' = catalogFetch]_vars

\* The fetch threw after the user had added a name of their own.
C19_Witness ==
  /\ last = "fetchItemsThrew"
  /\ itemsList = <<"Drill">>
  /\ isLoadingItems = FALSE
  /\ error = None
  /\ controlsEnabled
  /\ submitEnabled

(***************************************************************************)
(* C20: variant A, a name appended to the catalog through the new-item     *)
(* path stays in the catalog in every later state, however the confirm     *)
(* and the completion of the catalog fetch interleave; consequently every  *)
(* row name other than '' and 'other' is a member of the catalog.          *)
(***************************************************************************)
RowNamesInCatalog ==
  \A i \in DOMAIN formData.items :
    formData.items[i].name \notin {"", "other"} =>
      formData.items[i].name \in Range(itemsList)

C20_AddedNameStays ==
  [][variant = "A" =>
       /\ Range(itemsList) \subseteq Range(itemsList')
       /\ RowNamesInCatalog']_vars

(***************************************************************************)
(* C21: in both variants the fields stay editable while a POST is in       *)
(* flight, and the snapshot stored when the POST completes is the form     *)
(* state that was serialized into that POST when submit was invoked        *)
(* (before the department substitution), not the form state at completion: *)
(* edits made in flight change neither the payload nor the snapshot.       *)
(***************************************************************************)
C21_SnapshotOfSubmitTime ==
  [][/\ (last' = "handleSubmit" /\ post' # None) =>
          /\ post'[1].closure = formData
          /\ post'[1].body = postBody(variant, formData)
     /\ post # None => controlsEnabled
     /\ (post # None /\ post' # None) => post' = post
     /\ last' = "handleSubmitResolved" =>
          /\ post # None
          /\ printData' = Some(post[1].closure)
          /\ postBody(variant, printData'[1]) = post[1].body]_vars

\* The name was typed while the POST was in flight: the snapshot has the
\* empty name that was posted, the form state has the typed one.
C21_Witness ==
  /\ last = "handleSubmitResolved"
  /\ printData # None
  /\ printData[1].name = ""
  /\ formData.name = "Asha Rao"
  /\ printData[1] = [formData EXCEPT !.name = ""]

(***************************************************************************)
(* C22: variant A, in every reachable form state, a department other than  *)
(* 'Others' goes with an empty otherDepartment, and a user type other      *)
(* than 'student' with an empty instructorName.                            *)
(***************************************************************************)
C22_DependentFieldsEmpty ==
  variant = "A" =>
    /\ formData.department # "Others" => formData.otherDepartment = ""
    /\ formData.userType # "student" => formData.instructorName = ""

\* Three edits led to a staff member of a named department; both dependent
\* fields are empty.
C22_Witness ==
  /\ variant = "A"
  /\ last = "handleInputChange"
  /\ edits = 3
  /\ formData.userType = "staff"
  /\ formData.instructorName = ""
  /\ formData.department = "Physics"
  /\ formData.otherDepartment = ""

(***************************************************************************)
(* C23: variant A, no POST body has the sentinel 'other' as the name of    *)
(* an item: a row on which '+ Add New Item' was chosen and no new name     *)
(* confirmed cannot be submitted.                                          *)
(***************************************************************************)
C23_NoSentinelPosted ==
  (variant = "A" /\ post # None) =>
    \A i \in DOMAIN post[1].body.items : post[1].body.items[i].name # "other"

(***************************************************************************)
(* C24: in both variants, when the POST call eventually completes or       *)
(* throws, every submission that enters Submitting eventually leaves it:   *)
(* isSubmitting becomes false again, in Submitted or in Editing with the   *)
(* connectivity error; while the call has neither completed nor thrown,    *)
(* isSubmitting stays true and no second POST is started.                  *)
(***************************************************************************)
C24_SubmissionEnds ==
  /\ [][/\ isSubmitting => post # None
        /\ post # None =>
             \/ /\ isSubmitting' /\ post' = post
                /\ last' \notin {"handleSubmit", "handleSubmitResolved",
                                 "handleSubmitThrew"}
             \/ last' \in {"handleSubmitResolved", "handleSubmitThrew"}]_vars
  /\ (Phase = "Submitting") ~>
       \/ Phase = "Submitted" /\ last = "handleSubmitResolved"
       \/ /\ Phase = "Editing" /\ last = "handleSubmitThrew"
          /\ error = Some(SubmitError)

\* A submission of variant A left Submitting by a throw: the form state
\* with the valid email and mobile is kept, the connectivity error shown.
C24_Witness ==
  /\ variant = "A"
  /\ last = "handleSubmitThrew"
  /\ failures = 1
  /\ Phase = "Editing"
  /\ error = Some(SubmitError)
  /\ HasSuffix(formData.email)
  /\ TenDigits(formData.mobile)

====
